---- MODULE Spec2Model ----
(***************************************************************************)
(* A model of jschon's core vocabulary keywords (jschon/vocabulary/core.py) *)
(* and of the collaborators they call: URI, Catalogue, JSONSchema, Scope.   *)
(*                                                                          *)
(* Text (a URI reference, a fragment, an anchor name) is a sequence of      *)
(* tokens.  A token is one lexical unit of a URI reference:                 *)
(*   "s:"  a scheme with its colon      "a", "b"  a name (segment, anchor)  *)
(*   "/"   the path separator           "#"       the fragment separator    *)
(*   "."   a dot segment (a URI holding one is not normalized)              *)
(***************************************************************************)
EXTENDS Integers, Sequences, FiniteSets, TLC

VARIABLES
    schemas,        \* schema id -> its compiled fields (base_uri, anchors, body)
    catalogue,      \* Catalogue: URI -> schema id (the resource registry)
    kw,             \* the keyword object under construction / evaluation
    ev,             \* the last call made on the keyword and how it ended
    lookups,        \* the catalogue get_schema calls made so far, in order
    ncalls,         \* resolve / evaluate calls made on the keyword so far
    pointer,        \* the JSONPointer object an operation was called on
    tree            \* the Scope tree an evaluation has left behind

vars == <<schemas, catalogue, kw, ev, lookups, ncalls, pointer, tree>>

\* ------------------------------------------------------------------ bounds
MaxValueLen == 3      \* tokens in a keyword's textual value
MaxVocabs == 3        \* entries of a $vocabulary map
MaxChain == 4         \* scopes on an evaluation's scope chain
MaxCalls == 3         \* resolve / evaluate calls made on one keyword

\* ------------------------------------------------------- Python's values
None == "None"               \* None where a name (a schema, an error) is held
NoText == <<"None">>         \* None where text is held ("None" is no token)

\* the sequences of at most n elements of S
RECURSIVE SeqsOfLen(_, _)
SeqsOfLen(S, n) ==
    IF n = 0 THEN {<<>>}
    ELSE {Append(q, x) : q \in SeqsOfLen(S, n - 1), x \in S}

SeqsUpTo(S, n) == UNION {SeqsOfLen(S, k) : k \in 0..n}

\* the texts of at most n tokens
Texts(n) == SeqsUpTo({"s:", "a", "b", "/", "#", "."}, n)

Contains(text, token) == \E i \in 1..Len(text) : text[i] = token

\* the first position of token in text (text holds it)
IndexOf(text, token) ==
    CHOOSE i \in 1..Len(text) :
        text[i] = token /\ \A j \in 1..(i - 1) : text[j] # token

\* --------------------------------------------------------------------- URI
\* URI.fragment: None without a "#", else the text after the first "#"
\* (empty for a value that ends in "#").
URI_fragment(value) ==
    IF Contains(value, "#")
    THEN SubSeq(value, IndexOf(value, "#") + 1, Len(value))
    ELSE NoText

\* the reference without its fragment
URI_defrag(value) ==
    IF Contains(value, "#")
    THEN SubSeq(value, 1, IndexOf(value, "#") - 1)
    ELSE value

URI_has_scheme(value) == Len(value) > 0 /\ value[1] = "s:"

\* URI.has_absolute_base: the reference less its fragment is an absolute URI
URI_has_absolute_base(value) == URI_has_scheme(URI_defrag(value))

\* URI.is_absolute: a scheme and no fragment (RFC 3986 absolute-URI)
URI_is_absolute(value) == URI_has_scheme(value) /\ URI_fragment(value) = NoText

\* RFC 3986 syntax: a scheme only in front, one "#" at most
\* URI.validate: TRUE when it returns, FALSE when it raises URIError
URI_validate(value, require_scheme, require_normalized, allow_fragment) ==
    /\ \A i \in 2..Len(value) : value[i] # "s:"
    /\ URI_fragment(value) # NoText => ~Contains(URI_fragment(value), "#")
    /\ require_scheme => URI_has_scheme(value)
    /\ require_normalized => ~Contains(value, ".")
    /\ ~allow_fragment => URI_fragment(value) = NoText

\* URI.resolve (RFC 3986 5.2.2): a reference with a scheme stands as it is; one
\* with an empty path keeps the base's path; otherwise the reference's path
\* replaces the base's last segment.
URI_resolve(ref, base) ==
    IF URI_has_scheme(ref) THEN ref
    ELSE IF URI_defrag(ref) = <<>> THEN URI_defrag(base) \o ref
    ELSE IF ref[1] = "/" THEN <<base[1]>> \o ref
    ELSE LET b == URI_defrag(base)
             cut == IF Contains(b, "/")
                    THEN CHOOSE i \in 1..Len(b) :
                            b[i] = "/" /\ \A j \in (i + 1)..Len(b) : b[j] # "/"
                    ELSE 1
         IN SubSeq(b, 1, cut) \o ref

\* ------------------------------------------------------ schemas, catalogue
SchemaIds == {"outer", "middle", "inner", "anon"}

BaseA == <<"s:", "a">>
BaseB == <<"s:", "b">>
BaseC == <<"s:", "a", "/", "b">>

\* Catalogue.get_vocabulary: the vocabularies the catalogue was created with,
\* each with its keyword classes
core_vocabulary_uri == <<"s:", "a">>
Vocabularies ==
    (core_vocabulary_uri :> {"$schema", "$vocabulary", "$id", "$ref", "$anchor",
                             "$dynamicRef", "$dynamicAnchor", "$defs", "$comment"})
    @@ (<<"s:", "b">> :> {"type", "enum", "const"})

\* a compiled schema before any of its keywords is constructed
NewSchema(metaschema, base_uri) ==
    [metaschema |-> metaschema, base_uri |-> base_uri, uri |-> NoText,
     metaschema_uri |-> NoText, kwclasses |-> {},
     anchor |-> NoText, dynamic_anchor |-> NoText, body |-> "true"]

\* ------------------------------------------------- keyword construction
\* A constructor yields [raised, self, schemas]: the exception that left it
\* (None when it returned), the keyword object, and the schemas as it left
\* them.  Keyword.__init__ binds the parent schema, the key and the value.
Keyword(key, ps, value) == [key |-> key, parentschema |-> ps, value |-> value]

Returned(self, sch) == [raised |-> None, self |-> self, schemas |-> sch]
Raised(exc, self, sch) == [raised |-> exc, self |-> self, schemas |-> sch]

SchemaKeyword_init(sch, ps, value) ==
    LET self == Keyword("$schema", ps, value)
    IN IF ~URI_validate(value, TRUE, TRUE, TRUE)
       THEN Raised("JSONSchemaError", self, sch)
       ELSE Returned(self, [sch EXCEPT ![ps].metaschema_uri = value])

IdKeyword_init(sch, ps, value) ==
    LET self == Keyword("$id", ps, value)
    IN IF ~URI_validate(value, FALSE, TRUE, FALSE)
       THEN Raised("URIError", self, sch)
       ELSE IF URI_is_absolute(value)
       THEN Returned(self, [sch EXCEPT ![ps].uri = value])
       ELSE IF sch[ps].base_uri # NoText
       THEN Returned(self, [sch EXCEPT ![ps].uri = URI_resolve(value, sch[ps].base_uri)])
       ELSE Raised("JSONSchemaError", self, sch)

\* a $vocabulary value is a JSON object: its members in order, each
\* [uri, required], no key twice
VocabMaps ==
    LET uris == {core_vocabulary_uri, <<"s:", "b">>, <<"s:", "a", "b">>,
                 <<"s:", "b", "a">>, <<"b">>}
    IN {m \in SeqsUpTo([uri : uris, required : BOOLEAN], MaxVocabs) :
            \A i, j \in 1..Len(m) : i # j => m[i].uri # m[j].uri}

MapHas(value, key) == \E i \in 1..Len(value) : value[i].uri = key

\* a faulty variant: only the presence of the core vocabulary is tested
CoreListedPresentOnly(value) == MapHas(value, core_vocabulary_uri)

\* lines 48-50: the core vocabulary is listed with the value true
CoreListed(value) ==
    /\ MapHas(value, core_vocabulary_uri)
    /\ value[CHOOSE i \in 1..Len(value) :
                value[i].uri = core_vocabulary_uri].required = TRUE

\* a faulty variant: an unrecognized vocabulary fails whatever its value
RECURSIVE VocabularyLoop_always_required(_, _, _)
VocabularyLoop_always_required(value, i, kwclasses) ==
    IF i > Len(value) THEN [raised |-> None, kwclasses |-> kwclasses]
    ELSE IF ~URI_validate(value[i].uri, TRUE, TRUE, TRUE)
    THEN [raised |-> "JSONSchemaError", kwclasses |-> kwclasses]
    ELSE IF value[i].uri \in DOMAIN Vocabularies
    THEN VocabularyLoop_always_required(value, i + 1,
                                        kwclasses \cup Vocabularies[value[i].uri])
    ELSE [raised |-> "JSONSchemaError", kwclasses |-> kwclasses]

\* lines 53-65: the loop over value.items(), from member i on
RECURSIVE VocabularyLoop(_, _, _)
VocabularyLoop(value, i, kwclasses) ==
    IF i > Len(value) THEN [raised |-> None, kwclasses |-> kwclasses]
    ELSE IF ~URI_validate(value[i].uri, TRUE, TRUE, TRUE)
    THEN [raised |-> "JSONSchemaError", kwclasses |-> kwclasses]
    ELSE IF value[i].uri \in DOMAIN Vocabularies
    THEN VocabularyLoop(value, i + 1, kwclasses \cup Vocabularies[value[i].uri])
    ELSE IF value[i].required
    THEN [raised |-> "JSONSchemaError", kwclasses |-> kwclasses]
    ELSE VocabularyLoop(value, i + 1, kwclasses)

VocabularyKeyword_init(sch, ps, value) ==
    LET self == Keyword("$vocabulary", ps, value)
    IN IF ~sch[ps].metaschema THEN Returned(self, sch)
       ELSE IF ~CoreListed(value) THEN Raised("JSONSchemaError", self, sch)
       ELSE LET r == VocabularyLoop(value, 1, sch[ps].kwclasses)
                after == [sch EXCEPT ![ps].kwclasses = r.kwclasses]
            IN IF r.raised # None THEN Raised(r.raised, self, after)
               ELSE Returned(self, after)

DynamicRefKeyword_init(sch, ps, value) ==
    LET self == Keyword("$dynamicRef", ps, value)
        fragment == URI_fragment(value)
    IN IF fragment = NoText \/ Contains(fragment, "/")
       THEN Raised("JSONSchemaError", self, sch)
       ELSE Returned([key |-> "$dynamicRef", parentschema |-> ps, value |-> value,
                      fragment |-> fragment, refschema |-> None, dynamic |-> FALSE],
                     sch)

\* ------------------------------------------ the constructors as a machine
NoKeyword == [key |-> None]
NoCall == [op |-> None]

CtorSchemas ==
    [s \in SchemaIds |->
        CASE s = "outer" -> NewSchema(TRUE, BaseA)
          [] s = "middle" -> NewSchema(FALSE, BaseB)
          [] s = "inner" -> NewSchema(TRUE, NoText)
          [] OTHER -> NewSchema(FALSE, NoText)]

Init ==
    /\ schemas = CtorSchemas
    /\ catalogue = <<>>
    /\ kw = NoKeyword
    /\ ev = NoCall
    /\ lookups = <<>>
    /\ ncalls = 0
    /\ pointer = None
    /\ tree = None

Construct(r) ==
    /\ ev = NoCall
    /\ kw' = r.self
    /\ ev' = [op |-> "__init__", raised |-> r.raised]
    /\ schemas' = r.schemas
    /\ UNCHANGED <<catalogue, lookups, ncalls, pointer, tree>>

NewSchemaKeyword ==
    \E ps \in SchemaIds, value \in Texts(MaxValueLen) :
        Construct(SchemaKeyword_init(schemas, ps, value))

NewIdKeyword ==
    \E ps \in SchemaIds, value \in Texts(MaxValueLen) :
        Construct(IdKeyword_init(schemas, ps, value))

NewVocabularyKeyword ==
    \E ps \in SchemaIds, value \in VocabMaps :
        Construct(VocabularyKeyword_init(schemas, ps, value))

NewDynamicRefKeyword ==
    \E ps \in SchemaIds, value \in Texts(MaxValueLen) :
        Construct(DynamicRefKeyword_init(schemas, ps, value))

Next ==
    \/ NewSchemaKeyword
    \/ NewIdKeyword
    \/ NewVocabularyKeyword
    \/ NewDynamicRefKeyword

Spec == Init /\ [][Next]_vars

\* ---------------------------------------------- claims on construction
Constructed(key) == ev.op = "__init__" /\ kw.key = key

\* C4: constructing a $dynamicRef keyword succeeds only when its value ends in
\* a plain-name fragment; a value whose fragment is missing, is empty or holds
\* a "/" fails with JSONSchemaError.
C4_DynamicRefNeedsPlainName ==
    Constructed("$dynamicRef") =>
        LET fragment == URI_fragment(kw.value)
            plain == /\ fragment # NoText
                     /\ fragment # <<>>
                     /\ ~Contains(fragment, "/")
        IN /\ ev.raised = None => plain
           /\ ~plain => ev.raised = "JSONSchemaError"

\* C9: an $id or $schema keyword given a value its URI validation rejects
\* fails with JSONSchemaError, and no other kind of error leaves either
\* constructor.
C9_InvalidUriIsSchemaError ==
    /\ Constructed("$schema") =>
          /\ ~URI_validate(kw.value, TRUE, TRUE, TRUE) => ev.raised = "JSONSchemaError"
          /\ ev.raised \in {None, "JSONSchemaError"}
    /\ Constructed("$id") =>
          /\ ~URI_validate(kw.value, FALSE, TRUE, FALSE) => ev.raised = "JSONSchemaError"
          /\ ev.raised \in {None, "JSONSchemaError"}

\* C10: on a Metaschema the $vocabulary keyword fails with JSONSchemaError
\* unless its map lists the core vocabulary with the value true; on any other
\* schema it checks nothing and leaves every keyword-class set as it was.
C10_VocabularyCoreRequired ==
    Constructed("$vocabulary") =>
        LET core_true == \E i \in 1..Len(kw.value) :
                            /\ kw.value[i].uri = core_vocabulary_uri
                            /\ kw.value[i].required
        IN /\ (CtorSchemas[kw.parentschema].metaschema /\ ~core_true)
                => ev.raised = "JSONSchemaError"
           /\ ~CtorSchemas[kw.parentschema].metaschema
                => ev.raised = None /\ schemas = CtorSchemas

\* a Metaschema's map lists the core vocabulary with false, and construction
\* failed; the schema's keyword classes are untouched
C10_Witness ==
    /\ Constructed("$vocabulary")
    /\ CtorSchemas[kw.parentschema].metaschema
    /\ \E i \in 1..Len(kw.value) :
          kw.value[i].uri = core_vocabulary_uri /\ ~kw.value[i].required
    /\ Len(kw.value) = 2
    /\ ev.raised = "JSONSchemaError"
    /\ schemas = CtorSchemas

\* the map's member i is a URI the loop can look up (lines 54-58 let it by)
IsVocabURI(i) == URI_validate(kw.value[i].uri, TRUE, TRUE, TRUE)

\* the map's member i names a vocabulary the catalogue does not hold
Unrecognized(i) == kw.value[i].uri \notin DOMAIN Vocabularies

\* the loop reaches member i: every member before it is a URI that is either
\* recognized or not required
LoopReaches(i) ==
    \A j \in 1..(i - 1) :
        IsVocabURI(j) /\ (Unrecognized(j) => ~kw.value[j].required)

\* the loop has run: the keyword was built on a Metaschema whose map lists
\* the core vocabulary with true
VocabularyLoopRan ==
    /\ Constructed("$vocabulary")
    /\ CtorSchemas[kw.parentschema].metaschema
    /\ \E i \in 1..Len(kw.value) :
          kw.value[i].uri = core_vocabulary_uri /\ kw.value[i].required

\* C21: while the $vocabulary map of a Metaschema is processed in order, a
\* URI the catalogue does not know aborts construction with JSONSchemaError
\* when its value is true and is skipped silently when its value is false; on
\* success the keyword-class set holds the classes of every listed vocabulary
\* the catalogue knows, and on failure it holds the classes of those listed
\* before the failing member.
C21_VocabularyLoopInOrder ==
    VocabularyLoopRan =>
        LET value == kw.value
            kwclasses == schemas[kw.parentschema].kwclasses
        IN /\ \A i \in 1..Len(value) :
                 (LoopReaches(i) /\ IsVocabURI(i) /\ Unrecognized(i)
                    /\ value[i].required)
                 => ev.raised = "JSONSchemaError"
           /\ (\A i \in 1..Len(value) :
                 IsVocabURI(i) /\ (Unrecognized(i) => ~value[i].required))
                 => ev.raised = None
           /\ ev.raised = None
                 => \A i \in 1..Len(value) :
                      ~Unrecognized(i) => Vocabularies[value[i].uri] \subseteq kwclasses
           /\ ev.raised # None
                 => /\ \E f \in 1..Len(value) : LoopReaches(f) /\ ~LoopReaches(f + 1)
                    /\ \A i \in 1..Len(value) :
                          (LoopReaches(i + 1) /\ ~Unrecognized(i))
                          => Vocabularies[value[i].uri] \subseteq kwclasses

\* an unknown vocabulary with false was passed over, the next one's classes
\* were added, and an unknown vocabulary with true then stopped construction
C21_Witness ==
    /\ VocabularyLoopRan
    /\ kw.value = <<[uri |-> <<"s:", "a", "b">>, required |-> FALSE],
                    [uri |-> core_vocabulary_uri, required |-> TRUE],
                    [uri |-> <<"s:", "b", "a">>, required |-> TRUE]>>
    /\ ev.raised = "JSONSchemaError"
    /\ schemas[kw.parentschema].kwclasses = Vocabularies[core_vocabulary_uri]

\* ------------------------------------------------- Catalogue, JSONSchema
CatalogueError == "CatalogueError"

\* Catalogue.get_schema: the schema registered under uri; CatalogueError is
\* raised when there is none (no loader answers for the URIs of the model)
Catalogue_get_schema(cat, uri) ==
    IF uri \in DOMAIN cat THEN cat[uri] ELSE CatalogueError

\* The URIs a compiled schema is registered under: a resource root under its
\* base URI, and every schema under base#name for its $anchor and its
\* $dynamicAnchor (AnchorKeyword / DynamicAnchorKeyword: f'{base_uri}#{value}').
RootOf == (BaseA :> "outer") @@ (BaseB :> "middle") @@ (BaseC :> "inner")

AnchorURIs(sch, s) ==
    IF sch[s].base_uri = NoText THEN {}
    ELSE {sch[s].base_uri \o <<"#">> \o name :
            name \in {sch[s].anchor, sch[s].dynamic_anchor} \ {NoText}}

CatalogueOf(sch) ==
    LET uris == DOMAIN RootOf \cup UNION {AnchorURIs(sch, s) : s \in SchemaIds}
    IN [uri \in uris |->
           CHOOSE s \in SchemaIds :
               \/ uri \in AnchorURIs(sch, s)
               \/ uri \in DOMAIN RootOf /\ s = RootOf[uri]]

\* JSON instances, by type
Instances == {"object", "array"}

\* Scope: what an evaluation leaves on a node of the scope tree
NewScope == [error |-> None, annotation |-> None, children |-> <<>>]

\* JSONSchema.evaluate(instance, scope): a boolean schema writes on the scope
\* itself, an object schema appends one child scope per keyword.
JSONSchema_evaluate(sch, s, instance, scope) ==
    CASE sch[s].body = "true" -> scope
      [] sch[s].body = "false" -> [scope EXCEPT !.error = "false schema"]
      [] sch[s].body = "type:object" ->
            [scope EXCEPT !.children = Append(@,
                [key |-> "type", annotation |-> None,
                 error |-> IF instance = "object" THEN None
                           ELSE "The value must be of type object"])]
      [] sch[s].body = "title" ->
            [scope EXCEPT !.children = Append(@,
                [key |-> "title", annotation |-> "t", error |-> None])]

\* ------------------------------------------------------------ $dynamicRef
\* resolve and evaluate yield [raised, self, looked, ...]: looked lists the
\* URIs handed to Catalogue.get_schema, in order.

\* a faulty variant: any $dynamicAnchor on the target marks the reference dynamic
IsDynamicTargetAnyAnchor(sch, refschema, fragment) ==
    sch[refschema].dynamic_anchor # NoText

\* lines 162-163: the target carries a $dynamicAnchor equal to the fragment
\* (an anchor is a name, never empty, so its truth test is its presence)
IsDynamicTarget(sch, refschema, fragment) ==
    /\ sch[refschema].dynamic_anchor # NoText
    /\ sch[refschema].dynamic_anchor = fragment

DynamicRefKeyword_resolve(self, sch, cat) ==
    LET value == self.value
        base_uri == sch[self.parentschema].base_uri
        uri == IF URI_has_absolute_base(value) THEN value
               ELSE URI_resolve(value, base_uri)
        refschema == Catalogue_get_schema(cat, uri)
    IN IF ~URI_has_absolute_base(value) /\ base_uri = NoText
       THEN [raised |-> "JSONSchemaError", self |-> self, looked |-> <<>>]
       ELSE IF refschema = CatalogueError
       THEN [raised |-> CatalogueError, self |-> self, looked |-> <<uri>>]
       ELSE [raised |-> None, looked |-> <<uri>>,
             self |-> [self EXCEPT
                        !.refschema = refschema,
                        !.dynamic = IF IsDynamicTarget(sch, refschema, self.fragment)
                                    THEN TRUE ELSE @]]

\* lines 174-187: one turn of the loop, at a scope whose schema is s
DynWalkStep(self, sch, cat, acc, s) ==
    LET base_uri == sch[s].base_uri
        target_uri == URI_resolve(<<"#">> \o self.fragment, base_uri)
        found_schema == Catalogue_get_schema(cat, target_uri)
    IN IF base_uri # NoText /\ base_uri \notin acc.checked_uris
       THEN [refschema |->
                IF /\ found_schema # CatalogueError
                   /\ IsDynamicTarget(sch, found_schema, self.fragment)
                THEN found_schema ELSE acc.refschema,
             checked_uris |-> acc.checked_uris \cup {base_uri},
             looked |-> Append(acc.looked, target_uri)]
       ELSE acc

\* lines 173-189: the loop; chain[1] is the scope evaluate was handed, each
\* next one its parent, the last one the root
RECURSIVE DynWalk(_, _, _, _, _, _)
DynWalk(self, sch, cat, chain, i, acc) ==
    IF i > Len(chain) THEN acc
    ELSE DynWalk(self, sch, cat, chain, i + 1,
                 DynWalkStep(self, sch, cat, acc, chain[i]))

\* lines 191: refschema.evaluate(instance, scope); None has no evaluate
EvaluateTarget(self, sch, refschema, looked, instance, scope) ==
    IF refschema = None
    THEN [raised |-> "AttributeError", self |-> self, looked |-> looked,
          target |-> None, scope |-> scope]
    ELSE [raised |-> None, self |-> self, looked |-> looked,
          target |-> refschema,
          scope |-> JSONSchema_evaluate(sch, refschema, instance, scope)]

\* a faulty variant: the target the walk ends on is stored on the keyword
DynamicRefKeyword_evaluate_storing(self, sch, cat, instance, chain) ==
    LET start == [refschema |-> self.refschema, checked_uris |-> {}, looked |-> <<>>]
        w == IF self.dynamic THEN DynWalk(self, sch, cat, chain, 1, start) ELSE start
    IN EvaluateTarget([self EXCEPT !.refschema = w.refschema],
                      sch, w.refschema, w.looked, instance, NewScope)

\* a faulty variant: a CatalogueError of the walk is not caught
DynamicRefKeyword_evaluate_uncaught(self, sch, cat, instance, chain) ==
    LET start == [refschema |-> self.refschema, checked_uris |-> {}, looked |-> <<>>]
        w == IF self.dynamic THEN DynWalk(self, sch, cat, chain, 1, start) ELSE start
        failing == {k \in 1..Len(w.looked) : w.looked[k] \notin DOMAIN cat}
    IN IF failing = {}
       THEN EvaluateTarget(self, sch, w.refschema, w.looked, instance, NewScope)
       ELSE [raised |-> CatalogueError, self |-> self, target |-> None,
             looked |-> SubSeq(w.looked, 1,
                               CHOOSE k \in failing : \A j \in failing : k <= j),
             scope |-> NewScope]

DynamicRefKeyword_evaluate(self, sch, cat, instance, chain) ==
    LET start == [refschema |-> self.refschema, checked_uris |-> {}, looked |-> <<>>]
        w == IF self.dynamic THEN DynWalk(self, sch, cat, chain, 1, start) ELSE start
    IN EvaluateTarget(self, sch, w.refschema, w.looked, instance, NewScope)

\* ----------------------------------------------- $dynamicRef as a machine
\* The compiled schemas an evaluation meets: outer, middle and inner are
\* resource roots, each with its base URI; anon has no base URI.
\* Each schema with a base URI may carry $anchor "a" and a $dynamicAnchor.
EvalSchema(s, anchors) ==
    [NewSchema(FALSE, CASE s = "outer" -> BaseA
                        [] s = "middle" -> BaseB
                        [] s = "inner" -> BaseC
                        [] OTHER -> NoText)
     EXCEPT !.anchor = anchors[1],
            !.dynamic_anchor = anchors[2],
            !.body = CASE s = "outer" -> "type:object"
                       [] s = "middle" -> "false"
                       [] s = "inner" -> "title"
                       [] OTHER -> "true"]

\* add_schema refuses a second schema under one URI
EvalWorlds ==
    LET anchors == {<<NoText, NoText>>, <<<<"a">>, NoText>>, <<NoText, <<"a">>>>,
                    <<NoText, <<"b">>>>, <<<<"a">>, <<"b">>>>}
    IN {sch \in {[s \in SchemaIds |->
                    EvalSchema(s, IF s = "anon" THEN <<NoText, NoText>> ELSE f[s])] :
                 f \in [SchemaIds \ {"anon"} -> anchors]} :
           \A s, t \in SchemaIds :
               s # t => AnchorURIs(sch, s) \cap AnchorURIs(sch, t) = {}}

\* The scope chains a keyword of schema ps can be handed: the schema of each
\* scope, from the keyword's own scope (bound to ps) through its ancestors to
\* the root.
Chains(ps) ==
    {c \in SeqsUpTo(SchemaIds, MaxChain) : Len(c) >= 1 /\ c[1] = ps}

InitDynRef ==
    /\ schemas \in EvalWorlds
    /\ catalogue = CatalogueOf(schemas)
    /\ kw = NoKeyword
    /\ ev = NoCall
    /\ lookups = <<>>
    /\ ncalls = 0
    /\ pointer = None
    /\ tree = None

DynRefNew ==
    \E ps \in {"inner", "anon"},
       value \in {<<"#", "a">>, <<"s:", "a", "#", "a">>, <<"s:", "b", "#", "a">>} :
        Construct(DynamicRefKeyword_init(schemas, ps, value))

DynRefResolve ==
    /\ ev.op = "__init__" /\ ev.raised = None
    /\ LET r == DynamicRefKeyword_resolve(kw, schemas, catalogue)
       IN /\ kw' = r.self
          /\ ev' = [op |-> "resolve", raised |-> r.raised]
          /\ lookups' = lookups \o r.looked
          /\ ncalls' = ncalls + 1
    /\ UNCHANGED <<schemas, catalogue, pointer, tree>>

DynRefEvaluate ==
    /\ \/ ev.op = "__init__" /\ ev.raised = None
       \/ ev.op = "resolve"
    /\ \E instance \in Instances, chain \in Chains(kw.parentschema) :
        LET r == DynamicRefKeyword_evaluate(kw, schemas, catalogue, instance, chain)
        IN /\ kw' = r.self
           /\ ev' = [op |-> "evaluate", raised |-> r.raised, instance |-> instance,
                     chain |-> chain, target |-> r.target, looked |-> r.looked,
                     scope |-> r.scope]
           /\ lookups' = lookups \o r.looked
          /\ ncalls' = ncalls + 1
    /\ UNCHANGED <<schemas, catalogue, pointer, tree>>

NextDynRef == DynRefNew \/ DynRefResolve \/ DynRefEvaluate

SpecDynRef == InitDynRef /\ [][NextDynRef]_vars

\* ------------------------------------------------ claims on $dynamicRef
Evaluated == ev.op = "evaluate"

\* '<base_uri>#<fragment>' for the scope whose schema is s
DynamicTargetURI(s, fragment) == schemas[s].base_uri \o <<"#">> \o fragment

\* the scope's base URI has a catalogue entry for the fragment
Registered(s, fragment) ==
    /\ schemas[s].base_uri # NoText
    /\ DynamicTargetURI(s, fragment) \in DOMAIN catalogue

\* ... and the schema entered carries $dynamicAnchor = fragment
Matching(s, fragment) ==
    /\ Registered(s, fragment)
    /\ schemas[catalogue[DynamicTargetURI(s, fragment)]].dynamic_anchor = fragment

\* the positions of the chain whose scope matches; the last position is the root
MatchingScopes(chain, fragment) ==
    {i \in 1..Len(chain) : Matching(chain[i], fragment)}

FoundAt(chain, i, fragment) == catalogue[DynamicTargetURI(chain[i], fragment)]

OutermostMatch(chain, fragment) ==
    LET m == MatchingScopes(chain, fragment)
    IN FoundAt(chain, CHOOSE i \in m : \A j \in m : j <= i, fragment)

\* C1: a dynamic reference is evaluated against the matching target of the
\* scope nearest the root whenever two or more scopes of the chain match.
C1_OutermostAnchorWins ==
    (Evaluated /\ kw.dynamic
        /\ Cardinality(MatchingScopes(ev.chain, kw.fragment)) >= 2)
    => /\ ev.raised = None
       /\ ev.target = OutermostMatch(ev.chain, kw.fragment)

\* C2: when a dynamic reference finds no matching scope it is evaluated
\* against the schema resolve() stored, and an evaluation never changes the
\* stored refschema.
C2_FallbackToDefault ==
    [][(ev'.op = "evaluate" /\ ev.op # "evaluate")
        => /\ kw'.refschema = kw.refschema
           /\ (kw.dynamic /\ MatchingScopes(ev'.chain, kw.fragment) = {})
                => ev'.target = kw.refschema /\ ev'.raised = None]_vars

\* a dynamic reference walked a chain, looked a scope's URI up, matched
\* nothing and evaluated the stored target
C2_Witness ==
    /\ Evaluated /\ kw.dynamic
    /\ MatchingScopes(ev.chain, kw.fragment) = {}
    /\ ev.looked # <<>>
    /\ \E i \in 1..Len(ev.chain) : Registered(ev.chain[i], kw.fragment)
    /\ ev.target = kw.refschema

\* the positions where a base URI shows for the first time, walking from the
\* scope evaluate was handed towards the root
FirstVisits(chain) ==
    {i \in 1..Len(chain) :
        /\ schemas[chain[i]].base_uri # NoText
        /\ \A k \in 1..(i - 1) : schemas[chain[k]].base_uri # schemas[chain[i]].base_uri}

\* C3: a CatalogueError met for one scope during the walk does not end the
\* evaluation: the scope counts as no match, every base URI of the chain is
\* still looked up, and a match met at a later first visit of a base URI
\* replaces the target.
C3_CatalogueErrorRecovered ==
    (Evaluated /\ kw.dynamic
        /\ \E i \in 1..Len(ev.chain) :
              /\ schemas[ev.chain[i]].base_uri # NoText
              /\ ~Registered(ev.chain[i], kw.fragment))
    => LET m == MatchingScopes(ev.chain, kw.fragment) \cap FirstVisits(ev.chain)
       IN /\ ev.raised = None
          /\ {ev.looked[k] : k \in 1..Len(ev.looked)}
               = {DynamicTargetURI(ev.chain[i], kw.fragment) :
                    i \in {j \in 1..Len(ev.chain) :
                             schemas[ev.chain[j]].base_uri # NoText}}
          /\ ev.target = IF m = {} THEN kw.refschema
                         ELSE FoundAt(ev.chain, CHOOSE i \in m : \A j \in m : j <= i,
                                      kw.fragment)

\* the lookup fails for an inner scope and an outer scope's match replaced
\* the target
C3_Witness ==
    /\ Evaluated /\ kw.dynamic /\ ev.raised = None
    /\ \E i, j \in 1..Len(ev.chain) :
          /\ i < j
          /\ schemas[ev.chain[i]].base_uri # NoText
          /\ ~Registered(ev.chain[i], kw.fragment)
          /\ Matching(ev.chain[j], kw.fragment)
          /\ ev.target = FoundAt(ev.chain, j, kw.fragment)
          /\ ev.target # kw.refschema

\* C5: resolve marks the reference dynamic exactly when the target it looked
\* up carries a $dynamicAnchor equal to the fragment; a resolved reference
\* that is not dynamic evaluates that target whatever the chain, looking
\* nothing up.
C5_DynamicIffAnchorMatches ==
    (ev.op \in {"resolve", "evaluate"}) =>
        /\ kw.refschema = None => ~kw.dynamic
        /\ kw.refschema # None =>
              (kw.dynamic <=> schemas[kw.refschema].dynamic_anchor = kw.fragment)
        /\ (Evaluated /\ kw.refschema # None /\ ~kw.dynamic) =>
              /\ ev.raised = None
              /\ ev.target = kw.refschema
              /\ ev.looked = <<>>

\* the default target carries another $dynamicAnchor, a scope of the chain
\* matches the fragment, and the default target was evaluated all the same
C5_Witness ==
    /\ Evaluated /\ kw.refschema # None /\ ~kw.dynamic
    /\ schemas[kw.refschema].dynamic_anchor = <<"b">>
    /\ MatchingScopes(ev.chain, kw.fragment) # {}
    /\ ev.target = kw.refschema
    /\ ev.looked = <<>>

\* -------------------------------------------------------------------- $ref
RefKeyword_init(sch, ps, value) ==
    Returned([key |-> "$ref", parentschema |-> ps, value |-> value,
              refschema |-> None], sch)

RefKeyword_resolve(self, sch, cat) ==
    LET value == self.value
        base_uri == sch[self.parentschema].base_uri
        uri == IF URI_has_absolute_base(value) THEN value
               ELSE URI_resolve(value, base_uri)
        refschema == Catalogue_get_schema(cat, uri)
    IN IF ~URI_has_absolute_base(value) /\ base_uri = NoText
       THEN [raised |-> "JSONSchemaError", self |-> self, looked |-> <<>>]
       ELSE IF refschema = CatalogueError
       THEN [raised |-> CatalogueError, self |-> self, looked |-> <<uri>>]
       ELSE [raised |-> None, looked |-> <<uri>>,
             self |-> [self EXCEPT !.refschema = refschema]]

\* a faulty variant: the keyword reports a failure of its own on its scope
RefKeyword_evaluate_own_error(self, sch, instance, scope) ==
    LET r == EvaluateTarget(self, sch, self.refschema, <<>>, instance, scope)
    IN [r EXCEPT !.scope.error =
            IF \E i \in 1..Len(r.scope.children) : r.scope.children[i].error # None
            THEN "The instance is invalid against the referenced schema" ELSE @]

RefKeyword_evaluate(self, sch, instance, scope) ==
    EvaluateTarget(self, sch, self.refschema, <<>>, instance, scope)

\* ------------------------------------------------------ $ref as a machine
RefNew ==
    \E ps \in {"outer", "inner", "anon"},
       value \in {<<"s:", "a">>, <<"b">>, <<"#", "a">>, <<"s:", "b", "#", "a">>} :
        Construct(RefKeyword_init(schemas, ps, value))

RefResolve ==
    /\ kw.key = "$ref"
    /\ ncalls < MaxCalls
    /\ LET r == RefKeyword_resolve(kw, schemas, catalogue)
       IN /\ kw' = r.self
          /\ ev' = [op |-> "resolve", raised |-> r.raised]
          /\ lookups' = lookups \o r.looked
          /\ ncalls' = ncalls + 1
    /\ UNCHANGED <<schemas, catalogue, pointer, tree>>

\* the scope the keyword is handed is new, or holds what a sibling left
RefEvaluate ==
    /\ kw.key = "$ref"
    /\ ncalls < MaxCalls
    /\ \E instance \in Instances,
          scope \in {NewScope,
                     [NewScope EXCEPT !.children =
                        <<[key |-> "title", annotation |-> "t", error |-> None]>>]} :
        LET r == RefKeyword_evaluate(kw, schemas, instance, scope)
        IN /\ kw' = r.self
           /\ ev' = [op |-> "evaluate", raised |-> r.raised, instance |-> instance,
                     before |-> scope, target |-> r.target, looked |-> r.looked,
                     scope |-> r.scope]
           /\ lookups' = lookups \o r.looked
           /\ ncalls' = ncalls + 1
    /\ UNCHANGED <<schemas, catalogue, pointer, tree>>

NextRef == RefNew \/ RefResolve \/ RefEvaluate

SpecRef == InitDynRef /\ [][NextRef]_vars

\* ------------------------------------------------------- claims on $ref
\* the URI a $ref value stands for on its parent schema, and whether the
\* catalogue holds a schema there
ReferencedURI ==
    IF URI_has_absolute_base(kw.value) THEN kw.value
    ELSE URI_resolve(kw.value, schemas[kw.parentschema].base_uri)

Resolvable ==
    /\ URI_has_absolute_base(kw.value) \/ schemas[kw.parentschema].base_uri # NoText
    /\ ReferencedURI \in DOMAIN catalogue

\* C6: a $ref keyword is resolved on its first evaluation at the latest:
\* evaluate never runs against an empty target, and when resolve has not run
\* before it, evaluate resolves the reference and evaluates the target.
C6_ResolvedByFirstEvaluate ==
    (kw.key = "$ref" /\ Evaluated /\ Resolvable)
    => /\ ev.raised = None
       /\ kw.refschema = catalogue[ReferencedURI]
       /\ ev.target = kw.refschema

\* C7: once the target of a $ref keyword is assigned, a later resolve or
\* evaluate leaves it as it is and looks nothing up in the catalogue.
C7_TargetWriteOnce ==
    [][(kw.key = "$ref" /\ kw.refschema # None)
        => /\ kw'.refschema = kw.refschema
           /\ lookups' = lookups]_vars

\* C8: evaluating a resolved $ref keyword leaves on the scope exactly what
\* evaluating the schema at the referenced URI leaves on it, for the same
\* instance and scope, and nothing of the keyword's own.
C8_RefTransparent ==
    (kw.key = "$ref" /\ Evaluated /\ kw.refschema # None)
    => /\ ev.raised = None
       /\ ev.scope = JSONSchema_evaluate(schemas, catalogue[ReferencedURI],
                                         ev.instance, ev.before)

\* a resolved reference was evaluated on a scope that held a sibling's
\* annotation, and the referenced schema's error is on the scope
C8_Witness ==
    /\ kw.key = "$ref" /\ Evaluated /\ kw.refschema # None
    /\ ev.before # NewScope
    /\ Len(ev.scope.children) = 2
    /\ ev.scope.children[2].error # None
    /\ ev.scope.error = None

\* ------------------------------------------------ $anchor, $dynamicAnchor
\* The catalogue the anchor keywords write to holds, per session, the schema
\* registered under each URI: a function on <<session, uri>>.

\* the schemas the anchors are declared on: outer and middle are the roots of
\* two resources, inner is outer's resource compiled in another session, anon
\* has no base URI.  No two of them share a resource and a session, so an
\* anchor of one is never taken by another.
AnchorSchemas ==
    [s \in SchemaIds |->
        CASE s = "anon" -> NewSchema(FALSE, NoText)
          [] s = "middle" -> NewSchema(FALSE, BaseB)
          [] OTHER -> NewSchema(FALSE, BaseA)]

\* JSONSchema.session
JSONSchema_session ==
    [s \in SchemaIds |-> IF s = "inner" THEN "s1" ELSE "default"]

\* Catalogue.add_schema(uri, schema, session): registers the schema under the
\* URI in that session; a second registration of the URI in the session fails
\* unless the entry is that same schema.  Yields [raised, catalogue].
Catalogue_add_schema(cat, uri, schema, session) ==
    LET key == <<session, uri>>
    IN IF key \in DOMAIN cat /\ cat[key] # schema
       THEN [raised |-> "SchemaAlreadyRegistered", catalogue |-> cat]
       ELSE [raised |-> None,
             catalogue |-> [k \in DOMAIN cat \cup {key} |->
                                IF k = key THEN schema ELSE cat[k]]]

\* the body the two anchor constructors share; yields [raised, self, catalogue]
AnchorInit(key, sch, cat, ps, value, session) ==
    LET self == Keyword(key, ps, value)
        base_uri == sch[ps].base_uri
    IN IF base_uri # NoText
       THEN LET uri == base_uri \o <<"#">> \o value
                added == Catalogue_add_schema(cat, uri, ps, session)
            IN [raised |-> added.raised, self |-> self,
                catalogue |-> added.catalogue]
       ELSE [raised |-> "JSONSchemaError", self |-> self, catalogue |-> cat]

\* a faulty variant: the schema is registered in the default session
AnchorKeyword_init_default_session(sch, cat, ps, value) ==
    AnchorInit("$anchor", sch, cat, ps, value, "default")

AnchorKeyword_init(sch, cat, ps, value) ==
    AnchorInit("$anchor", sch, cat, ps, value, JSONSchema_session[ps])

DynamicAnchorKeyword_init(sch, cat, ps, value) ==
    AnchorInit("$dynamicAnchor", sch, cat, ps, value, JSONSchema_session[ps])

\* ------------------------------------------- the anchor keywords' machine
InitAnchor ==
    /\ schemas = AnchorSchemas
    /\ catalogue = <<>>
    /\ kw = NoKeyword
    /\ ev = NoCall
    /\ lookups = <<>>
    /\ ncalls = 0
    /\ pointer = None
    /\ tree = None

ConstructAnchor(r) ==
    /\ ncalls < MaxCalls
    /\ kw' = r.self
    /\ ev' = [op |-> "__init__", raised |-> r.raised]
    /\ catalogue' = r.catalogue
    /\ ncalls' = ncalls + 1
    /\ UNCHANGED <<schemas, lookups, pointer, tree>>

NewAnchorKeyword ==
    \E ps \in SchemaIds, value \in {<<"a">>, <<"b">>} :
        ConstructAnchor(AnchorKeyword_init(schemas, catalogue, ps, value))

NewDynamicAnchorKeyword ==
    \E ps \in SchemaIds, value \in {<<"a">>, <<"b">>} :
        ConstructAnchor(DynamicAnchorKeyword_init(schemas, catalogue, ps, value))

NextAnchor == NewAnchorKeyword \/ NewDynamicAnchorKeyword

SpecAnchor == InitAnchor /\ [][NextAnchor]_vars

\* --------------------------------------------- claims on the anchor keywords
\* what the step just taken constructed
AnchorKey(k) == <<JSONSchema_session[k.parentschema],
                  schemas[k.parentschema].base_uri \o <<"#">> \o k.value>>

\* the catalogue with the one entry key -> schema written, all else kept
WithEntry(cat, key, schema) ==
    [k \in DOMAIN cat \cup {key} |-> IF k = key THEN schema ELSE cat[k]]

MaxTextLen == 4       \* characters in a string handed to JSONPointer(...)
MaxKeys == 2          \* keys in an iterable handed to JSONPointer(...)

\* str.replace(old, new) for a non-empty old: the occurrences of old, found
\* left to right without overlap, are each replaced by new
RECURSIVE str_replace(_, _, _)
str_replace(s, old, new) ==
    IF Len(s) < Len(old) THEN s
    ELSE IF SubSeq(s, 1, Len(old)) = old
    THEN new \o str_replace(SubSeq(s, Len(old) + 1, Len(s)), old, new)
    ELSE <<Head(s)>> \o str_replace(Tail(s), old, new)

\* str.split(sep) for a one-character sep: the pieces between the separators
\* (one piece, the whole string, when there is no separator)
RECURSIVE str_split(_, _)
str_split(s, sep) ==
    IF ~Contains(s, sep) THEN <<s>>
    ELSE LET i == IndexOf(s, sep)
         IN <<SubSeq(s, 1, i - 1)>> \o str_split(SubSeq(s, i + 1, Len(s)), sep)

\* ''.join(parts)
RECURSIVE str_join(_)
str_join(parts) ==
    IF parts = <<>> THEN <<>> ELSE Head(parts) \o str_join(Tail(parts))

\* a faulty variant: '/' is escaped before '~'
JSONPointer_escape_slash_first(key) ==
    str_replace(str_replace(key, <<"/">>, <<"~", "1">>), <<"~">>, <<"~", "0">>)

\* JSONPointer.escape: key.replace('~', '~0').replace('/', '~1')
JSONPointer_escape(key) ==
    str_replace(str_replace(key, <<"~">>, <<"~", "0">>), <<"/">>, <<"~", "1">>)

\* JSONPointer.unescape: token.replace('~1', '/').replace('~0', '~')
JSONPointer_unescape(token) ==
    str_replace(str_replace(token, <<"~", "1">>, <<"/">>), <<"~", "0">>, <<"~">>)

\* _json_pointer_re = ^(/([^~/]|(~[01]))*)*$ under fullmatch.
\* TokenEnd: the position after the longest run of ([^~/]|(~[01])) from i.
RECURSIVE TokenEnd(_, _)
TokenEnd(s, i) ==
    IF i > Len(s) THEN i
    ELSE IF s[i] \notin {"~", "/"} THEN TokenEnd(s, i + 1)
    ELSE IF s[i] = "~" /\ i < Len(s) /\ s[i + 1] \in {"0", "1"}
    THEN TokenEnd(s, i + 2)
    ELSE i

\* the groups (/token) from position i on take the string to its end
RECURSIVE json_pointer_re_from(_, _)
json_pointer_re_from(s, i) ==
    IF i > Len(s) THEN TRUE
    ELSE IF s[i] = "/" THEN json_pointer_re_from(s, TokenEnd(s, i + 1))
    ELSE FALSE

\* a faulty variant: a '~' may be followed by any character
json_pointer_re_any_tilde(s) ==
    s = <<>> \/ s[1] = "/"

json_pointer_re_fullmatch(s) == json_pointer_re_from(s, 1)


\* An argument of JSONPointer(*values) is [type, value]: a "JSONPointer" or an
\* "Iterable" of str with its keys, a "str" (value holds the one string), or
\* an "other" object.  The constructor yields [raised, keys].
RECURSIVE JSONPointer_init_loop(_, _, _)
JSONPointer_init_loop(values, i, keys) ==
    IF i > Len(values) THEN [raised |-> None, keys |-> keys]
    ELSE LET value == values[i]
         IN IF value.type = "str"
            THEN IF ~json_pointer_re_fullmatch(value.value[1])
                 THEN [raised |-> "JSONPointerError", keys |-> keys]
                 ELSE LET tokens == Tail(str_split(value.value[1], "/"))
                      IN JSONPointer_init_loop(values, i + 1,
                            keys \o [j \in 1..Len(tokens) |->
                                        JSONPointer_unescape(tokens[j])])
            ELSE IF value.type \in {"JSONPointer", "Iterable"}
            THEN JSONPointer_init_loop(values, i + 1, keys \o value.value)
            ELSE [raised |-> "TypeError", keys |-> keys]

JSONPointer_init(values) == JSONPointer_init_loop(values, 1, <<>>)

\* JSONPointer.__str__: ''.join([f'/{self.escape(key)}' for key in self._keys])
JSONPointer_str(self) ==
    str_join([i \in 1..Len(self.keys) |->
                <<"/">> \o JSONPointer_escape(self.keys[i])])

\* JSONPointer.__eq__
JSONPointer_eq(self, other) == self.keys = other.keys

\* ---------------------------------------------------- JSONPointer's machine
NoPointer == [keys |-> <<>>, built |-> FALSE]

\* the unescaped keys handed to the constructor as an iterable
PointerKeys ==
    {<<>>, <<"a">>, <<"~">>, <<"/">>, <<"0">>, <<"1">>, <<"-">>,
     <<"~", "0">>, <<"~", "1">>, <<"~", "0", "1">>, <<"a", "/">>,
     <<"0", "1">>, <<"0", "0">>, <<"1", "1">>, <<"-", "1">>, <<"/", "~">>}

\* one string, one iterable of keys, a pointer extended by a key (the /
\* operator: JSONPointer(self, (key,))), a string followed by keys, or an
\* object of another type
PointerArgs ==
    {<<[type |-> "str", value |-> <<s>>]>> :
        s \in SeqsUpTo({"~", "/", "0", "1", "a", "-"}, MaxTextLen)}
    \cup {<<[type |-> "Iterable", value |-> ks]>> :
            ks \in SeqsUpTo(PointerKeys, MaxKeys)}
    \cup {<<[type |-> "JSONPointer", value |-> <<k1>>],
             [type |-> "Iterable", value |-> <<k2>>]>> :
            k1 \in PointerKeys, k2 \in {<<"~">>, <<"a", "/">>}}
    \cup {<<[type |-> "str", value |-> <<s>>],
             [type |-> "Iterable", value |-> <<k>>]>> :
            s \in {<<"/", "~", "1">>, <<"~">>}, k \in {<<"/">>, <<"1">>}}
    \cup {<<[type |-> "other", value |-> <<>>]>>}

InitPointer ==
    /\ schemas = CtorSchemas
    /\ catalogue = <<>>
    /\ kw = NoKeyword
    /\ ev = NoCall
    /\ lookups = <<>>
    /\ ncalls = 0
    /\ pointer = NoPointer
    /\ tree = None

\* JSONPointer(*values)
PointerNew ==
    /\ ev = NoCall
    /\ \E values \in PointerArgs :
        LET r == JSONPointer_init(values)
        IN /\ ev' = [op |-> "__init__", values |-> values, raised |-> r.raised]
           /\ pointer' = IF r.raised = None
                         THEN [keys |-> r.keys, built |-> TRUE]
                         ELSE NoPointer
    /\ UNCHANGED <<schemas, catalogue, kw, lookups, ncalls, tree>>

\* str(pointer)
PointerStr ==
    /\ ev.op = "__init__" /\ ev.raised = None
    /\ ev' = [op |-> "__str__", values |-> ev.values,
              returned |-> JSONPointer_str(pointer)]
    /\ UNCHANGED <<schemas, catalogue, kw, lookups, ncalls, pointer, tree>>

\* JSONPointer(text) == pointer, for the text str(pointer) returned
PointerFromStr ==
    /\ ev.op = "__str__"
    /\ LET r == JSONPointer_init(<<[type |-> "str", value |-> <<ev.returned>>]>>)
       IN ev' = [op |-> "__eq__", values |-> ev.values, text |-> ev.returned,
                 raised |-> r.raised,
                 returned |-> r.raised = None
                              /\ JSONPointer_eq([keys |-> r.keys], pointer)]
    /\ UNCHANGED <<schemas, catalogue, kw, lookups, ncalls, pointer, tree>>

\* ------------------------------------------------- JSONPointer.evaluate
\* A JSON value is [t, v] with t one of null, boolean, integer, number,
\* string, array, object: an object holds a function from keys to values, an
\* array the sequence of its items, a string its text.  A numeric value holds
\* its exact decimal value, counted in tenths: the integer 1 is
\* [t |-> "integer", v |-> 10] and the number 1.0 is [t |-> "number", v |-> 10].
JSONInteger(n) == [t |-> "integer", v |-> 10 * n]
JSONNumber(tenths) == [t |-> "number", v |-> tenths]
JSONBoolean(b) == [t |-> "boolean", v |-> b]
JSONString(s) == [t |-> "string", v |-> s]
JSONNull == [t |-> "null", v |-> "null"]
JSONArray(items) == [t |-> "array", v |-> items]
JSONObject(members) == [t |-> "object", v |-> members]

\* the decimal digits and their values
DigitValue ==
    ("0" :> 0) @@ ("1" :> 1) @@ ("2" :> 2) @@ ("3" :> 3) @@ ("4" :> 4)
    @@ ("5" :> 5) @@ ("6" :> 6) @@ ("7" :> 7) @@ ("8" :> 8) @@ ("9" :> 9)

\* int(key) for a key of decimal digits
RECURSIVE int(_)
int(key) ==
    IF key = <<>> THEN 0
    ELSE int(SubSeq(key, 1, Len(key) - 1)) * 10 + DigitValue[key[Len(key)]]

\* a faulty variant: any run of digits is an index
array_index_re_any_digits(key) ==
    key # <<>> /\ \A i \in 1..Len(key) : key[i] \in DOMAIN DigitValue

\* _array_index_re = ^0|([1-9][0-9]*)$ under fullmatch: the first alternative
\* takes the whole key when the key is "0", the second when the key is a
\* digit 1-9 followed by digits only
array_index_re_fullmatch(key) ==
    \/ key = <<"0">>
    \/ /\ key # <<>>
       /\ key[1] \in DOMAIN DigitValue \ {"0"}
       /\ \A i \in 2..Len(key) : key[i] \in DOMAIN DigitValue

JSONPointerFailure == [raised |-> "JSONPointerError", returned |-> JSONNull]

\* resolve(value, keys) of JSONPointer.evaluate; yields [raised, returned].
\* value[key] raises KeyError for a key the object does not hold, and
\* value[int(key)] raises IndexError for an index past the end; both are
\* caught and end in the JSONPointerError that closes the function.
RECURSIVE resolve(_, _)
resolve(value, keys) ==
    IF keys = <<>> THEN [raised |-> None, returned |-> value]
    ELSE LET key == Head(keys)
         IN IF value.t = "object"
            THEN IF key \in DOMAIN value.v
                 THEN resolve(value.v[key], Tail(keys))
                 ELSE JSONPointerFailure
            ELSE IF value.t = "array" /\ array_index_re_fullmatch(key)
            THEN IF int(key) < Len(value.v)
                 THEN resolve(value.v[int(key) + 1], Tail(keys))
                 ELSE JSONPointerFailure
            ELSE JSONPointerFailure

\* a faulty variant: only the first key is followed
JSONPointer_evaluate_first_key(self, document) ==
    resolve(document, IF self.keys = <<>> THEN <<>> ELSE <<Head(self.keys)>>)

JSONPointer_evaluate(self, document) == resolve(document, self.keys)

\* the documents pointers are evaluated against
DocInner ==
    JSONObject((<<"0">> :> JSONString(<<"a">>)) @@ (<<"0", "1">> :> JSONNull)
               @@ (<<"~">> :> JSONInteger(1)))

DocArray == JSONArray(<<JSONString(<<"a", "a">>), DocInner>>)

DocObject ==
    JSONObject((<<"a">> :> DocArray) @@ (<<>> :> JSONInteger(0))
               @@ (<<"/">> :> JSONString(<<"0">>))
               @@ (<<"1">> :> JSONArray(<<JSONNull>>)))

Documents == {DocObject, DocArray, JSONString(<<"a", "a">>), JSONNull}

\* pointer.evaluate(document)
PointerEvaluate ==
    /\ ev.op = "__init__" /\ ev.raised = None
    /\ \E document \in Documents :
        LET r == JSONPointer_evaluate(pointer, document)
        IN ev' = [op |-> "evaluate", values |-> ev.values,
                  document |-> document, raised |-> r.raised,
                  returned |-> r.returned]
    /\ UNCHANGED <<schemas, catalogue, kw, lookups, ncalls, pointer, tree>>

NextPointer == PointerNew \/ PointerStr \/ PointerFromStr \/ PointerEvaluate

SpecPointer == InitPointer /\ [][NextPointer]_vars

\* ------------------------------------------------- claims on JSONPointer
\* the one string the pointer was constructed from
FromText == Len(ev.values) = 1 /\ ev.values[1].type = "str"
TextArg == ev.values[1].value[1]

\* the one iterable of keys the pointer was constructed from
FromKeys == Len(ev.values) = 1 /\ ev.values[1].type = "Iterable"

\* C12: for every JSONPointer P, whatever keys it holds (keys with '~' and
\* '/', empty keys, no key at all), JSONPointer(str(P)) is constructed and
\* equals P.
C12_RoundTripFromKeys ==
    ev.op = "__eq__" => ev.raised = None /\ ev.returned

\* a pointer built from the keys '/~' and '' has gone through str() and back
C12_Witness ==
    /\ ev.op = "__eq__"
    /\ FromKeys
    /\ pointer.keys = << <<"/", "~">>, <<>> >>
    /\ ev.text = <<"/", "~", "1", "~", "0", "/">>
    /\ ev.returned

\* RFC 6901: json-pointer = *( "/" reference-token ), where a reference token
\* holds no "/" and holds "~" only as the start of "~0" or "~1"
RFC6901(s) ==
    /\ s # <<>> => s[1] = "/"
    /\ \A i \in 1..Len(s) :
          s[i] = "~" => i < Len(s) /\ s[i + 1] \in {"0", "1"}

\* C13: a string that conforms to the RFC 6901 syntax is accepted by the
\* constructor and str() of the pointer gives the string back; a string that
\* does not conform is rejected with JSONPointerError.
C13_RoundTripFromText ==
    /\ (ev.op = "__init__" /\ FromText) =>
          ev.raised = IF RFC6901(TextArg) THEN None ELSE "JSONPointerError"
    /\ (ev.op = "__str__" /\ FromText) => ev.returned = TextArg

\* the text '/~01' was parsed to the key '~1' and rendered back
C13_Witness ==
    /\ ev.op = "__str__"
    /\ FromText
    /\ TextArg = <<"/", "~", "0", "1">>
    /\ pointer.keys = << <<"~", "1">> >>
    /\ ev.returned = TextArg

\* RFC 6901 array-index = %x30 / ( %x31-39 *(%x30-39) )
IsArrayIndex(key) ==
    /\ key # <<>>
    /\ \A i \in 1..Len(key) : key[i] \in DOMAIN DigitValue
    /\ key[1] = "0" => Len(key) = 1

\* the step from a value by one key can be taken: the object holds the key, or
\* the key is an index within the array
CanStep(value, key) ==
    \/ value.t = "object" /\ key \in DOMAIN value.v
    \/ value.t = "array" /\ IsArrayIndex(key) /\ int(key) < Len(value.v)

StepTo(value, key) ==
    IF ~CanStep(value, key) THEN JSONNull
    ELSE IF value.t = "object" THEN value.v[key]
    ELSE value.v[int(key) + 1]

\* the value n keys into the document (null once a step could not be taken)
RECURSIVE ValueAt(_, _, _)
ValueAt(document, keys, n) ==
    IF n = 0 THEN document
    ELSE StepTo(ValueAt(document, keys, n - 1), keys[n])

AllStepsTaken(document, keys, n) ==
    \A i \in 1..n : CanStep(ValueAt(document, keys, i - 1), keys[i])

\* C14: evaluate returns the value reached by following every key in order
\* (the whole document for the empty pointer), and fails with
\* JSONPointerError exactly when some step cannot be taken: the key is absent
\* from an object, the index is out of range for an array, or the token is
\* applied to a value that is neither an object nor an array.
C14_EvaluateFollowsKeys ==
    ev.op = "evaluate" =>
        LET keys == pointer.keys
        IN IF AllStepsTaken(ev.document, keys, Len(keys))
           THEN /\ ev.raised = None
                /\ ev.returned = ValueAt(ev.document, keys, Len(keys))
           ELSE ev.raised = "JSONPointerError"

\* '/a/1' was followed through an object and an array to the inner object
C14_Witness ==
    /\ ev.op = "evaluate"
    /\ ev.document = DocObject
    /\ pointer.keys = << <<"a">>, <<"1">> >>
    /\ ev.raised = None
    /\ ev.returned = DocInner

\* the integer a run of digits denotes, leading zeros allowed
Denotes(key) == int(key)

\* C15: a token applied to an array is taken as an index only if the whole
\* token matches 0|[1-9][0-9]*; a token with a leading zero, a sign or any
\* non-digit fails with JSONPointerError, also when the integer it denotes is
\* a position of the array.
C15_IndexSyntaxStrict ==
    ev.op = "evaluate" =>
        \A n \in 1..Len(pointer.keys) :
            (/\ AllStepsTaken(ev.document, pointer.keys, n - 1)
             /\ ValueAt(ev.document, pointer.keys, n - 1).t = "array"
             /\ ~IsArrayIndex(pointer.keys[n]))
                => ev.raised = "JSONPointerError"

\* '01' denotes position 1 of a two-item array and was rejected
C15_Witness ==
    /\ ev.op = "evaluate"
    /\ ev.document = DocArray
    /\ pointer.keys = << <<"0", "1">> >>
    /\ Denotes(pointer.keys[1]) < Len(ev.document.v)
    /\ ev.raised = "JSONPointerError"

\* ======================================================== OutputFormatter
\* (jschon/output.py)  A Scope is [kind, error, annotation, children]: the
\* scope of a (sub)schema's evaluation has one child per keyword that fired,
\* the scope of a keyword has one child per subschema it applied.  A scope's
\* locations (path, instpath, absolute_uri) are fixed by its position in the
\* tree: the sequence of child indices that leads to it from the root.
MaxKeywords == 2      \* keyword scopes under the root schema's scope
MaxSubschemas == 1    \* subschema scopes under an applicator keyword's scope

\* a boolean subschema's scope: true leaves nothing, false leaves its error
SubschemaScopes ==
    {[kind |-> "schema", error |-> e, annotation |-> None, children |-> <<>>] :
        e \in {None, "false schema"}}

\* a keyword's scope: the keyword passed, failed with its error, or passed
\* with an annotation; an applicator has the scopes of its subschemas below
KeywordScopes ==
    {[kind |-> "keyword", error |-> r[1], annotation |-> r[2], children |-> c] :
        r \in {<<None, None>>, <<"failed", None>>, <<None, "noted">>},
        c \in SeqsUpTo(SubschemaScopes, MaxSubschemas)}

\* the scope trees evaluate(schema, instance) returns: of a boolean schema,
\* or of an object schema with its keywords' scopes
ScopeTrees ==
    SubschemaScopes
    \cup {[kind |-> "schema", error |-> None, annotation |-> None, children |-> c] :
            c \in SeqsUpTo(KeywordScopes, MaxKeywords)}

\* Scope.valid.  A keyword's scope is valid unless the keyword set its error
\* (anyOf, oneOf, not, contains pass over failing subschema scopes); a
\* schema's scope is valid iff it has no error and every child scope is valid.
RECURSIVE Scope_valid(_)
Scope_valid(s) ==
    /\ s.error = None
    /\ s.kind = "schema" => \A i \in 1..Len(s.children) : Scope_valid(s.children[i])

\* An output entry holds the scope's locations, here its path, as
\* keywordLocation.
RECURSIVE flatten_annotations(_, _)
RECURSIVE flatten_annotations_children(_, _, _)
\* for child in scope.iter_children(): yield from _flatten_annotations(child)
flatten_annotations_children(s, path, i) ==
    IF i > Len(s.children) THEN <<>>
    ELSE flatten_annotations(s.children[i], Append(path, i))
         \o flatten_annotations_children(s, path, i + 1)

\* OutputFormatter._flatten_annotations
flatten_annotations(s, path) ==
    IF s.error = None
    THEN (IF s.annotation # None
          THEN <<[keywordLocation |-> path, annotation |-> s.annotation]>>
          ELSE <<>>)
         \o flatten_annotations_children(s, path, 1)
    ELSE <<>>

RECURSIVE flatten_errors(_, _)
RECURSIVE flatten_errors_children(_, _, _)
\* for child in scope.iter_children(): yield from _flatten_errors(child)
flatten_errors_children(s, path, i) ==
    IF i > Len(s.children) THEN <<>>
    ELSE flatten_errors(s.children[i], Append(path, i))
         \o flatten_errors_children(s, path, i + 1)

\* OutputFormatter._flatten_errors
flatten_errors(s, path) ==
    IF ~Scope_valid(s)
    THEN <<[keywordLocation |-> path, error |-> s.error]>>
         \o flatten_errors_children(s, path, 1)
    ELSE <<>>

\* OutputFormatter.flag
OutputFormatter_flag(s) == [valid |-> Scope_valid(s)]

\* OutputFormatter.basic
OutputFormatter_basic(s) ==
    IF Scope_valid(s)
    THEN [valid |-> TRUE, annotations |-> flatten_annotations(s, <<>>)]
    ELSE [valid |-> FALSE, errors |-> flatten_errors(s, <<>>)]

\* ------------------------------------------- the output formatter's machine
InitOutput ==
    /\ schemas = CtorSchemas
    /\ catalogue = <<>>
    /\ kw = NoKeyword
    /\ ev = NoCall
    /\ lookups = <<>>
    /\ ncalls = 0
    /\ pointer = NoPointer
    /\ tree \in ScopeTrees

OutputFlag ==
    /\ ev = NoCall
    /\ ev' = [op |-> "flag", returned |-> OutputFormatter_flag(tree)]
    /\ UNCHANGED <<schemas, catalogue, kw, lookups, ncalls, pointer, tree>>

OutputBasic ==
    /\ ev = NoCall
    /\ ev' = [op |-> "basic", returned |-> OutputFormatter_basic(tree)]
    /\ UNCHANGED <<schemas, catalogue, kw, lookups, ncalls, pointer, tree>>

NextOutput == OutputFlag \/ OutputBasic

SpecOutput == InitOutput /\ [][NextOutput]_vars

\* --------------------------------------------- claims on the basic output
\* the scope at a path of child indices
RECURSIVE ScopeAt(_, _)
ScopeAt(s, path) ==
    IF path = <<>> THEN s ELSE ScopeAt(s.children[Head(path)], Tail(path))

\* the paths of all scopes of a tree, parent before children, children in
\* their stored order
RECURSIVE Preorder(_, _)
RECURSIVE PreorderChildren(_, _, _)
PreorderChildren(s, path, i) ==
    IF i > Len(s.children) THEN <<>>
    ELSE Preorder(s.children[i], Append(path, i)) \o PreorderChildren(s, path, i + 1)

Preorder(s, path) == <<path>> \o PreorderChildren(s, path, 1)

ScopePaths(s) == {Preorder(s, <<>>)[i] : i \in 1..Len(Preorder(s, <<>>))}

\* no scope of the subtree, the scope itself included, has an error set
ErrorFree(s) == \A p \in ScopePaths(s) : ScopeAt(s, p).error = None

\* the paths of q, in order, whose scope has its error set
RECURSIVE SelectPaths(_, _)
SelectPaths(q, s) ==
    IF q = <<>> THEN <<>>
    ELSE (IF ScopeAt(s, Head(q)).error # None THEN <<Head(q)>> ELSE <<>>)
         \o SelectPaths(Tail(q), s)

\* C16: in the basic output of a valid scope tree, an annotation entry is
\* emitted for a scope if and only if the scope's annotation is set and its
\* whole subtree is error-free; a scope with an annotation and an erroring
\* descendant contributes no entry.
C16_AnnotationsOfCleanSubtrees ==
    (ev.op = "basic" /\ ev.returned.valid) =>
        \A p \in ScopePaths(tree) :
            (\E i \in 1..Len(ev.returned.annotations) :
                ev.returned.annotations[i].keywordLocation = p)
            <=> (/\ ScopeAt(tree, p).annotation # None
                 /\ ErrorFree(ScopeAt(tree, p)))

\* C17: in the basic output of an invalid scope tree, the errors list is the
\* preorder sequence of the scopes whose error is set, each entry carrying
\* that scope's error; a scope without an error of its own has no entry.
C17_ErrorsInPreorder ==
    (ev.op = "basic" /\ ~ev.returned.valid) =>
        LET erring == SelectPaths(Preorder(tree, <<>>), tree)
        IN ev.returned.errors =
              [i \in 1..Len(erring) |->
                  [keywordLocation |-> erring[i],
                   error |-> ScopeAt(tree, erring[i]).error]]

\* ==================================================== validation keywords
\* (jschon/keywords/validation.py)  A keyword's evaluate(instance) yields
\* [raised, result]: the exception that left it (None when it returned) and
\* the KeywordResult it returned.
MaxTenths == 12       \* largest magnitude of a numeric value, in tenths
MaxItems == 2         \* items in an array instance
MaxChars == 2         \* characters in a string instance

\* JSON.__eq__: structural sameness; an integer and a number are the same
\* when their exact values are
RECURSIVE JSON_eq(_, _)
JSON_eq(x, y) ==
    IF x.t \in {"integer", "number"} /\ y.t \in {"integer", "number"}
    THEN x.v = y.v
    ELSE IF x.t # y.t THEN FALSE
    ELSE IF x.t = "array"
    THEN /\ Len(x.v) = Len(y.v)
         /\ \A i \in 1..Len(x.v) : JSON_eq(x.v[i], y.v[i])
    ELSE IF x.t = "object"
    THEN /\ DOMAIN x.v = DOMAIN y.v
         /\ \A k \in DOMAIN x.v : JSON_eq(x.v[k], y.v[k])
    ELSE x.v = y.v

\* JSONNumber % JSONNumber, == 0: the exact remainder, in tenths
JSONNumber_mod(x, d) == x.v % d.v

\* a faulty variant: the message is set whatever valid is
KeywordResult_error_always(valid, error) ==
    [raised |-> None, result |-> [valid |-> valid, error |-> error]]

\* KeywordResult(valid=..., error=... if not valid else None)
KeywordResult(valid, error) ==
    [raised |-> None,
     result |-> [valid |-> valid, error |-> IF ~valid THEN error ELSE None]]

NoResult == [valid |-> FALSE, error |-> None]
NotImplemented == [raised |-> "NotImplementedError", result |-> NoResult]

\* MultipleOfKeyword.evaluate
MultipleOfKeyword_evaluate(self, instance) ==
    KeywordResult(JSONNumber_mod(instance, self.value) = 0,
                  "The value must be a multiple of {value}")

\* a faulty variant: the bound itself is excluded
MaximumKeyword_evaluate_strict(self, instance) ==
    KeywordResult(instance.v < self.value.v,
                  "The value may not be greater than {value}")

\* MaximumKeyword.evaluate
MaximumKeyword_evaluate(self, instance) ==
    KeywordResult(instance.v <= self.value.v,
                  "The value may not be greater than {value}")

\* ExclusiveMaximumKeyword.evaluate
ExclusiveMaximumKeyword_evaluate(self, instance) ==
    KeywordResult(instance.v < self.value.v,
                  "The value must be less than {value}")

\* MinimumKeyword.evaluate
MinimumKeyword_evaluate(self, instance) ==
    KeywordResult(instance.v >= self.value.v,
                  "The value may not be less than {value}")

\* ExclusiveMinimumKeyword.evaluate
ExclusiveMinimumKeyword_evaluate(self, instance) ==
    KeywordResult(instance.v > self.value.v,
                  "The value must be greater than {value}")

\* item in uniquified: some element of the list equals the item
ListContains(list, item) == \E i \in 1..Len(list) : JSON_eq(list[i], item)

\* for item in instance: if item not in uniquified: uniquified += [item]
RECURSIVE Uniquify(_, _, _)
Uniquify(items, i, uniquified) ==
    IF i > Len(items) THEN uniquified
    ELSE Uniquify(items, i + 1,
                  IF ~ListContains(uniquified, items[i])
                  THEN Append(uniquified, items[i])
                  ELSE uniquified)

\* a faulty variant: items are told apart by identity, so each is unique
UniqueItemsKeyword_evaluate_identity(self, instance) ==
    KeywordResult(~self.value \/ Len(instance.v) = Len(instance.v),
                  "The array's elements must all be unique'")

\* UniqueItemsKeyword.evaluate
UniqueItemsKeyword_evaluate(self, instance) ==
    LET uniquified == Uniquify(instance.v, 1, <<>>)
    IN KeywordResult(~self.value \/ Len(instance.v) = Len(uniquified),
                     "The array's elements must all be unique'")

\* MaxContainsKeyword.evaluate: raise NotImplementedError
MaxContainsKeyword_evaluate(self, instance) == NotImplemented

\* MinContainsKeyword.evaluate: raise NotImplementedError
MinContainsKeyword_evaluate(self, instance) == NotImplemented

\* TypeKeyword.evaluate: any(instance.is_type(jsontype) for jsontype in value);
\* an integer is of type "number" too, and a number with an integral value is
\* of type "integer"
JSON_is_type(instance, jsontype) ==
    \/ instance.t = jsontype
    \/ instance.t = "integer" /\ jsontype = "number"
    \/ instance.t = "number" /\ jsontype = "integer" /\ instance.v % 10 = 0

TypeKeyword_evaluate(self, instance) ==
    KeywordResult(\E i \in 1..Len(self.value) : JSON_is_type(instance, self.value[i]),
                  "The value must be of type {value}")

\* EnumKeyword.evaluate: instance in self.value
EnumKeyword_evaluate(self, instance) ==
    KeywordResult(ListContains(self.value, instance),
                  "The value must be one of {value}")

\* ConstKeyword.evaluate: instance == self.value
ConstKeyword_evaluate(self, instance) ==
    KeywordResult(JSON_eq(instance, self.value),
                  "The value must be equal to {value}")

\* MaxLengthKeyword.evaluate
MaxLengthKeyword_evaluate(self, instance) ==
    KeywordResult(Len(instance.v) <= self.value,
                  "The text is too long (maximum {value} characters)")

\* MinLengthKeyword.evaluate
MinLengthKeyword_evaluate(self, instance) ==
    KeywordResult(Len(instance.v) >= self.value,
                  "The text is too short (minimum {value} characters)")

\* PatternKeyword.evaluate: self.regex.search(instance.value) is not None.
\* A regular expression is a literal text, after "^" when it is bound to the
\* start and before "$" when it is bound to the end; search finds it at any
\* position the bounds allow.
PatternKeyword_evaluate(self, instance) ==
    LET regex == self.regex
        text == instance.v
        from_start == Len(regex) > 0 /\ regex[1] = "^"
        to_end == Len(regex) > 0 /\ regex[Len(regex)] = "$"
        literal == SubSeq(regex, IF from_start THEN 2 ELSE 1,
                          IF to_end THEN Len(regex) - 1 ELSE Len(regex))
    IN KeywordResult(
           \E i \in 1..(Len(text) + 1) :
               /\ from_start => i = 1
               /\ i + Len(literal) - 1 <= Len(text)
               /\ SubSeq(text, i, i + Len(literal) - 1) = literal
               /\ to_end => i + Len(literal) - 1 = Len(text),
           "The text must match the regular expression {value}")

\* MaxItemsKeyword.evaluate
MaxItemsKeyword_evaluate(self, instance) ==
    KeywordResult(Len(instance.v) <= self.value,
                  "The array has too many elements (maximum {value})")

\* MinItemsKeyword.evaluate
MinItemsKeyword_evaluate(self, instance) ==
    KeywordResult(Len(instance.v) >= self.value,
                  "The array has too few elements (minimum {value})")

\* MaxPropertiesKeyword.evaluate: len of an object is the number of its names
MaxPropertiesKeyword_evaluate(self, instance) ==
    KeywordResult(Cardinality(DOMAIN instance.v) <= self.value,
                  "The object has too many properties (maximum {value})")

\* MinPropertiesKeyword.evaluate
MinPropertiesKeyword_evaluate(self, instance) ==
    KeywordResult(Cardinality(DOMAIN instance.v) >= self.value,
                  "The object has too few properties (minimum {value})")

\* RequiredKeyword.evaluate:
\* missing = [name for name in self.value if name not in instance]
RequiredKeyword_evaluate(self, instance) ==
    LET missing == SelectSeq(self.value, LAMBDA name : name \notin DOMAIN instance.v)
    IN KeywordResult(Len(missing) = 0,
                     "The object is missing required properties {missing}")

\* DependentRequiredKeyword.evaluate: missing maps each name of the value
\* that the instance holds, and that has dependents the instance lacks, to
\* those dependents
DependentRequiredKeyword_evaluate(self, instance) ==
    LET missing_deps(name) ==
            SelectSeq(self.value[name], LAMBDA dep : dep \notin DOMAIN instance.v)
        missing == [name \in {n \in DOMAIN self.value :
                                 /\ n \in DOMAIN instance.v
                                 /\ Len(missing_deps(n)) > 0}
                    |-> missing_deps(name)]
    IN KeywordResult(Cardinality(DOMAIN missing) = 0,
                     "The object is missing dependent properties {missing}")

\* --------------------------------------- the validation keywords' machine
\* the numeric values: every multiple of a tenth up to MaxTenths, as a
\* number, and the whole ones among them as an integer too
Numerics ==
    {JSONNumber(n) : n \in (-MaxTenths)..MaxTenths}
    \cup {JSONInteger(k) : k \in {j \in (-MaxTenths)..MaxTenths :
                                      10 * j \in (-MaxTenths)..MaxTenths}}

\* the items of array instances: values that are the same without being
\* written the same (1 and 1.0, [1] and [1.0], {"a": 1} and {"a": 1.0}), and
\* values that differ only by type (1 and true)
ArrayItems ==
    {JSONInteger(1), JSONNumber(10), JSONInteger(0), JSONBoolean(TRUE),
     JSONString(<<"a">>), JSONNull,
     JSONArray(<<JSONInteger(1)>>), JSONArray(<<JSONNumber(10)>>),
     JSONObject([k \in {"a"} |-> JSONInteger(1)]),
     JSONObject([k \in {"a"} |-> JSONNumber(10)]),
     JSONObject([k \in {"b"} |-> JSONInteger(1)])}

Arrays == {JSONArray(q) : q \in SeqsUpTo(ArrayItems, MaxItems)}

\* the string instances, a str being the sequence of its characters
Strings == {JSONString(q) : q \in SeqsUpTo({"a", "b"}, MaxChars)}

\* the object instances: each holds some of the names a, b, c
Objects ==
    {JSONObject([name \in names |-> JSONInteger(1)]) : names \in SUBSET {"a", "b", "c"}}

\* Schema.evaluate for {"contains": S, "minContains": m, "maxContains": M}:
\* the keywords are evaluated in turn, an exception of one leaves the
\* evaluation, and the result is valid iff every keyword's result is
ContainsSchema_evaluate(schema, instance) ==
    LET rmin == MinContainsKeyword_evaluate(
                    [key |-> "minContains", value |-> schema.minContains], instance)
        rmax == MaxContainsKeyword_evaluate(
                    [key |-> "maxContains", value |-> schema.maxContains], instance)
    IN IF rmin.raised # None THEN [raised |-> rmin.raised, result |-> NoResult]
       ELSE IF rmax.raised # None THEN [raised |-> rmax.raised, result |-> NoResult]
       ELSE KeywordResult(rmin.result.valid /\ rmax.result.valid,
                          "The instance failed validation against the schema")

InitValidation ==
    /\ schemas = CtorSchemas
    /\ catalogue = <<>>
    /\ kw = NoKeyword
    /\ ev = NoCall
    /\ lookups = <<>>
    /\ ncalls = 0
    /\ pointer = NoPointer
    /\ tree = None

\* kwclass(schema, value).evaluate(instance)
ValidationCall(op, key, value, instance, r) ==
    /\ ev = NoCall
    /\ kw' = [key |-> key, value |-> value]
    /\ ev' = [op |-> op, instance |-> instance,
              raised |-> r.raised, result |-> r.result]
    /\ UNCHANGED <<schemas, catalogue, lookups, ncalls, pointer, tree>>

\* the values of multipleOf are positive: its schema demands exclusiveMinimum 0
EvaluateMultipleOf ==
    \E value \in {d \in Numerics : d.v > 0}, instance \in Numerics :
        ValidationCall("evaluate", "multipleOf", value, instance,
            MultipleOfKeyword_evaluate([key |-> "multipleOf", value |-> value], instance))

EvaluateMaximum ==
    \E value \in Numerics, instance \in Numerics :
        ValidationCall("evaluate", "maximum", value, instance,
            MaximumKeyword_evaluate([key |-> "maximum", value |-> value], instance))

EvaluateExclusiveMaximum ==
    \E value \in Numerics, instance \in Numerics :
        ValidationCall("evaluate", "exclusiveMaximum", value, instance,
            ExclusiveMaximumKeyword_evaluate(
                [key |-> "exclusiveMaximum", value |-> value], instance))

EvaluateMinimum ==
    \E value \in Numerics, instance \in Numerics :
        ValidationCall("evaluate", "minimum", value, instance,
            MinimumKeyword_evaluate([key |-> "minimum", value |-> value], instance))

EvaluateExclusiveMinimum ==
    \E value \in Numerics, instance \in Numerics :
        ValidationCall("evaluate", "exclusiveMinimum", value, instance,
            ExclusiveMinimumKeyword_evaluate(
                [key |-> "exclusiveMinimum", value |-> value], instance))

EvaluateUniqueItems ==
    \E value \in BOOLEAN, instance \in Arrays :
        ValidationCall("evaluate", "uniqueItems", value, instance,
            UniqueItemsKeyword_evaluate([key |-> "uniqueItems", value |-> value], instance))

EvaluateMaxContains ==
    \E value \in 0..MaxItems, instance \in Arrays :
        ValidationCall("evaluate", "maxContains", value, instance,
            MaxContainsKeyword_evaluate([key |-> "maxContains", value |-> value], instance))

EvaluateMinContains ==
    \E value \in 0..MaxItems, instance \in Arrays :
        ValidationCall("evaluate", "minContains", value, instance,
            MinContainsKeyword_evaluate([key |-> "minContains", value |-> value], instance))

EvaluateType ==
    \E value \in {<<"boolean">>, <<"integer">>, <<"number">>, <<"null", "array">>},
       instance \in ArrayItems :
        ValidationCall("evaluate", "type", value, instance,
            TypeKeyword_evaluate([key |-> "type", value |-> value], instance))

EvaluateEnum ==
    \E value \in SeqsUpTo(ArrayItems, MaxItems), instance \in ArrayItems :
        ValidationCall("evaluate", "enum", value, instance,
            EnumKeyword_evaluate([key |-> "enum", value |-> value], instance))

EvaluateConst ==
    \E value \in ArrayItems, instance \in ArrayItems :
        ValidationCall("evaluate", "const", value, instance,
            ConstKeyword_evaluate([key |-> "const", value |-> value], instance))

EvaluateMaxLength ==
    \E value \in 0..(MaxChars + 1), instance \in Strings :
        ValidationCall("evaluate", "maxLength", value, instance,
            MaxLengthKeyword_evaluate([key |-> "maxLength", value |-> value], instance))

EvaluateMinLength ==
    \E value \in 0..(MaxChars + 1), instance \in Strings :
        ValidationCall("evaluate", "minLength", value, instance,
            MinLengthKeyword_evaluate([key |-> "minLength", value |-> value], instance))

\* PatternKeyword.__init__ compiles the value: self.regex = re.compile(value)
EvaluatePattern ==
    \E value \in {<<>>, <<"a">>, <<"^", "a">>, <<"a", "$">>, <<"b", "a">>,
                   <<"^", "a", "b", "$">>, <<"^", "$">>},
       instance \in Strings :
        ValidationCall("evaluate", "pattern", value, instance,
            PatternKeyword_evaluate(
                [key |-> "pattern", value |-> value, regex |-> value], instance))

EvaluateMaxItems ==
    \E value \in 0..(MaxItems + 1), instance \in Arrays :
        ValidationCall("evaluate", "maxItems", value, instance,
            MaxItemsKeyword_evaluate([key |-> "maxItems", value |-> value], instance))

EvaluateMinItems ==
    \E value \in 0..(MaxItems + 1), instance \in Arrays :
        ValidationCall("evaluate", "minItems", value, instance,
            MinItemsKeyword_evaluate([key |-> "minItems", value |-> value], instance))

EvaluateMaxProperties ==
    \E value \in 0..4, instance \in Objects :
        ValidationCall("evaluate", "maxProperties", value, instance,
            MaxPropertiesKeyword_evaluate(
                [key |-> "maxProperties", value |-> value], instance))

EvaluateMinProperties ==
    \E value \in 0..4, instance \in Objects :
        ValidationCall("evaluate", "minProperties", value, instance,
            MinPropertiesKeyword_evaluate(
                [key |-> "minProperties", value |-> value], instance))

\* the value of required lists names, none twice (its schema demands
\* uniqueItems)
EvaluateRequired ==
    \E value \in {<<>>, <<"a">>, <<"b">>, <<"a", "b">>, <<"c", "a">>, <<"b", "c">>},
       instance \in Objects :
        ValidationCall("evaluate", "required", value, instance,
            RequiredKeyword_evaluate([key |-> "required", value |-> value], instance))

\* the value of dependentRequired maps names to lists of names
EvaluateDependentRequired ==
    \E names \in SUBSET {"a", "b"}, instance \in Objects :
        \E value \in [names -> {<<>>, <<"c">>, <<"b", "c">>}] :
            ValidationCall("evaluate", "dependentRequired", value, instance,
                DependentRequiredKeyword_evaluate(
                    [key |-> "dependentRequired", value |-> value], instance))

\* JSONSchema({"contains": {"type": "boolean"}, "minContains": m,
\* "maxContains": M}).evaluate(instance), as test_contains calls it
EvaluateContainsSchema ==
    \E m \in 0..MaxItems, M \in 0..MaxItems, instance \in Arrays :
        /\ m <= M
        /\ LET schema == [contains |-> <<"boolean">>,
                          minContains |-> m, maxContains |-> M]
           IN ValidationCall("Schema.evaluate", "contains", schema, instance,
                  ContainsSchema_evaluate(schema, instance))

NextValidation ==
    \/ EvaluateMultipleOf
    \/ EvaluateMaximum
    \/ EvaluateExclusiveMaximum
    \/ EvaluateMinimum
    \/ EvaluateExclusiveMinimum
    \/ EvaluateUniqueItems
    \/ EvaluateMaxContains
    \/ EvaluateMinContains
    \/ EvaluateType
    \/ EvaluateEnum
    \/ EvaluateConst
    \/ EvaluateMaxLength
    \/ EvaluateMinLength
    \/ EvaluatePattern
    \/ EvaluateMaxItems
    \/ EvaluateMinItems
    \/ EvaluateMaxProperties
    \/ EvaluateMinProperties
    \/ EvaluateRequired
    \/ EvaluateDependentRequired
    \/ EvaluateContainsSchema

SpecValidation == InitValidation /\ [][NextValidation]_vars

\* ------------------------------------- claims on the validation keywords
KeywordEvaluated(key) == ev.op = "evaluate" /\ kw.key = key

\* the items of the array instance that are valid against {"type": "boolean"}
ContainsCount ==
    Cardinality({i \in 1..Len(ev.instance.v) : ev.instance.v[i].t = "boolean"})

\* C18: for a schema {contains: S, minContains: m, maxContains: M} and an
\* array instance the evaluation completes, and its result is valid if and
\* only if m <= (number of items valid against S) <= M; evaluating the
\* minContains and the maxContains keyword yields a result, not an exception.
C18_ContainsCountWithinBounds ==
    /\ (KeywordEvaluated("minContains") \/ KeywordEvaluated("maxContains"))
          => ev.raised = None
    /\ ev.op = "Schema.evaluate" =>
          /\ ev.raised = None
          /\ ev.result.valid <=> /\ kw.value.minContains <= ContainsCount
                                 /\ ContainsCount <= kw.value.maxContains

\* a JSON value with every integer written as the number of the same value
RECURSIVE Canonical(_)
Canonical(x) ==
    IF x.t = "integer" THEN [t |-> "number", v |-> x.v]
    ELSE IF x.t = "array"
    THEN [t |-> "array", v |-> [i \in 1..Len(x.v) |-> Canonical(x.v[i])]]
    ELSE IF x.t = "object"
    THEN [t |-> "object", v |-> [k \in DOMAIN x.v |-> Canonical(x.v[k])]]
    ELSE x

\* JSON sameness: element-wise for arrays, key-wise for objects, by exact
\* value for integers and numbers
Same(x, y) == Canonical(x) = Canonical(y)

\* C19: uniqueItems false holds of every array; uniqueItems true holds of an
\* array if and only if no two of its items are the same JSON value (arrays
\* element-wise, objects key-wise, an integer the same as the number with its
\* value), whichever objects hold them.
C19_UniqueItemsStructural ==
    KeywordEvaluated("uniqueItems") =>
        /\ ev.raised = None
        /\ ev.result.valid <=>
              \/ ~kw.value
              \/ \A i, j \in 1..Len(ev.instance.v) :
                    i # j => ~Same(ev.instance.v[i], ev.instance.v[j])

\* [[1], [1.0]] under uniqueItems true: two arrays, the same element-wise
C19_Witness ==
    /\ KeywordEvaluated("uniqueItems")
    /\ kw.value
    /\ ev.instance = JSONArray(<<JSONArray(<<JSONInteger(1)>>),
                                 JSONArray(<<JSONNumber(10)>>)>>)
    /\ ~ev.result.valid

\* d divides x exactly: x is a whole multiple of d
Divides(d, x) == \E k \in (-MaxTenths)..MaxTenths : x.v = k * d.v

\* C20: multipleOf d > 0 holds of a number x if and only if the exact
\* remainder of x by d is zero; maximum, exclusiveMaximum, minimum and
\* exclusiveMinimum v hold of x if and only if x <= v, x < v, x >= v, x > v.
C20_NumericKeywordsExact ==
    /\ KeywordEvaluated("multipleOf") =>
          ev.raised = None /\ (ev.result.valid <=> Divides(kw.value, ev.instance))
    /\ KeywordEvaluated("maximum") =>
          ev.raised = None /\ (ev.result.valid <=> ev.instance.v <= kw.value.v)
    /\ KeywordEvaluated("exclusiveMaximum") =>
          ev.raised = None /\ (ev.result.valid <=> ev.instance.v < kw.value.v)
    /\ KeywordEvaluated("minimum") =>
          ev.raised = None /\ (ev.result.valid <=> ev.instance.v >= kw.value.v)
    /\ KeywordEvaluated("exclusiveMinimum") =>
          ev.raised = None /\ (ev.result.valid <=> ev.instance.v > kw.value.v)

\* 0.3 is a multiple of 0.1
C20_Witness ==
    /\ KeywordEvaluated("multipleOf")
    /\ kw.value = JSONNumber(1)
    /\ ev.instance = JSONNumber(3)
    /\ ev.result.valid

\* the validation keywords that are implemented: all but minContains and
\* maxContains
ImplementedKeywords ==
    {"type", "enum", "const", "multipleOf", "maximum", "exclusiveMaximum",
     "minimum", "exclusiveMinimum", "maxLength", "minLength", "pattern",
     "maxItems", "minItems", "uniqueItems", "maxProperties", "minProperties",
     "required", "dependentRequired"}

\* C22: every implemented validation keyword returns a result that holds an
\* error message if and only if it is not valid: a valid result holds none,
\* an invalid one always holds one.
C22_ErrorIffNotValid ==
    (ev.op = "evaluate" /\ kw.key \in ImplementedKeywords) =>
        /\ ev.raised = None
        /\ ev.result.error # None <=> ~ev.result.valid

\* {"b": 1} under dependentRequired {"b": ["c"]}: invalid, with the message
C22_Witness ==
    /\ KeywordEvaluated("dependentRequired")
    /\ kw.value = [name \in {"b"} |-> <<"c">>]
    /\ ev.instance = JSONObject([name \in {"b"} |-> JSONInteger(1)])
    /\ ~ev.result.valid
    /\ ev.result.error = "The object is missing dependent properties {missing}"

====
